---- MODULE Spec2Model ----
(***************************************************************************)
(* Model of src/main.py: a 2-SAT solver that reads a DIMACS clause stream, *)
(* builds an implication graph G and its transpose G_inv, runs two DFS     *)
(* passes, extracts "SCC" lists from the parent chains of the second pass, *)
(* reports a verdict and, when SATISFIABLE, a binding.                     *)
(*                                                                         *)
(* Strings are sequences of one-character strings (<<"-", "1">> is "-1").  *)
(* Python object references to Literal objects of a graph are positions    *)
(* (1-based) in that graph's `literals` list, which only ever grows.       *)
(* Python None is "None" for string-valued fields and Nil (0) for the      *)
(* integer-valued ones (d, f, parent).                                     *)
(*                                                                         *)
(* The model starts after the "p cnf" preamble line (read_mode = True) and *)
(* reads the rest of the file one token at a time.                         *)
(***************************************************************************)
EXTENDS Integers, Sequences, FiniteSets, TLC

\* Bounds of the model: number of variable names and of clause terminators.
MaxVar == 2
MaxClauses == 2

\* src/main.py:186  `if len(current_clause) > 2`
MaxArity == 2

None == "None"
Nil == 0

Digits == <<"1", "2", "3", "4", "5", "6", "7", "8", "9">>

\* The variable names a file may use, and the tokens built from them.
VarNames == {<<Digits[i]>> : i \in 1..MaxVar}
LiteralTokens == VarNames \cup {<<"-">> \o v : v \in VarNames}
Terminator == <<"0">>

MsgArity == "Program does not support clauses with more than two literals."
MsgOneLiteral == "Program only supports 2-SAT clauses."

----------------------------------------------------------------------------
(* class Literal *)

\* str.replace("--", ""): left-to-right removal of non-overlapping "--".
RECURSIVE RemoveDoubleDash(_)
RemoveDoubleDash(s) ==
    IF Len(s) < 2 THEN s
    ELSE IF s[1] = "-" /\ s[2] = "-"
         THEN RemoveDoubleDash(SubSeq(s, 3, Len(s)))
         ELSE <<s[1]>> \o RemoveDoubleDash(Tail(s))

Literal(name) ==
    [name |-> RemoveDoubleDash(name), neighbours |-> <<>>, d |-> Nil, f |-> Nil,
     color |-> None, parent |-> Nil, checked |-> FALSE]

get_negation(lt) == Literal(<<"-">> \o lt.name)

----------------------------------------------------------------------------
(* class Implication_Graph *)

Implication_Graph ==
    [literals |-> <<>>, bindings |-> [n \in {} |-> None],
     dfs_time |-> -1, dfs_topo_sorted |-> <<>>]

\* 0-based id of the first literal with that name, -1 when absent.
get_literal_id(g, name) ==
    IF \E i \in 1..Len(g.literals) : g.literals[i].name = name
    THEN (CHOOSE i \in 1..Len(g.literals) :
            /\ g.literals[i].name = name
            /\ \A j \in 1..(i - 1) : g.literals[j].name # name) - 1
    ELSE -1

Contains(g, literal) ==
    \E i \in 1..Len(g.literals) : g.literals[i].name = literal.name

add_literal(g, literal) ==
    LET lt == Literal(literal.name) IN
    IF ~Contains(g, lt)
    THEN [g EXCEPT
            !.literals = Append(Append(@, lt), get_negation(lt)),
            !.bindings = (get_negation(lt).name :> None) @@ (lt.name :> None) @@ @]
    ELSE g

\* Never called by main (a one-literal clause raises instead).
add_forced(g, lt) ==
    [g EXCEPT !.bindings =
        (get_negation(lt).name :> "False") @@ (lt.name :> "True") @@ @]

add_implication(g, lt1, lt2) ==
    LET i1 == get_literal_id(g, lt1.name)
        i2 == get_literal_id(g, lt2.name)
    IN  IF i1 >= 0 /\ i2 >= 0 /\ ~(i1 = i2)
        THEN [g EXCEPT !.literals[i1 + 1].neighbours = Append(@, i2 + 1)]
        ELSE g

dfs_init(g) ==
    [g EXCEPT
        !.literals = [i \in 1..Len(g.literals) |->
                        [g.literals[i] EXCEPT !.color = "white", !.parent = Nil]],
        !.dfs_time = 0]

RECURSIVE dfs_visit(_, _)
RECURSIVE VisitNeighbours(_, _, _)

\* The body of dfs_visit's `for v in lt.neighbours` from the k-th neighbour on.
VisitNeighbours(g, i, k) ==
    IF k > Len(g.literals[i].neighbours) THEN g
    ELSE LET v == g.literals[i].neighbours[k] IN
         IF g.literals[v].color = "white"
         THEN VisitNeighbours(
                dfs_visit([g EXCEPT !.literals[v].parent = i], v), i, k + 1)
         ELSE VisitNeighbours(g, i, k + 1)

dfs_visit(g, i) ==
    LET g1 == [g EXCEPT !.dfs_time = @ + 1,
                        !.literals[i].d = g.dfs_time + 1,
                        !.literals[i].color = "grey"]
        g2 == VisitNeighbours(g1, i, 1)
    IN  [g2 EXCEPT !.literals[i].color = "BLACK",
                   !.dfs_time = @ + 1,
                   !.literals[i].f = g2.dfs_time + 1,
                   !.dfs_topo_sorted = Append(@, i)]

\* `for lt in self.literals: if lt.color == "white": ...` from position i on;
\* yields the graph and the list of the trees' roots.
RECURSIVE VisitWhites(_, _, _)
VisitWhites(g, i, ret) ==
    IF i > Len(g.literals) THEN [g |-> g, ret |-> ret]
    ELSE IF g.literals[i].color = "white"
         THEN VisitWhites(dfs_visit(g, i), i + 1, Append(ret, i))
         ELSE VisitWhites(g, i + 1, ret)

\* dfs_first(start=None): the graph after the traversal and the returned list.
dfs_first(g) == VisitWhites(g, 1, <<>>)

----------------------------------------------------------------------------
(* dfs_second, lines 131-143: the lists built from the parent chains *)

\* `while cur_elem:` from literal i: i, its parent, ... up to the tree's root.
RECURSIVE ParentChain(_, _)
ParentChain(g, i) ==
    IF i = Nil THEN <<>>
    ELSE <<i>> \o ParentChain(g, g.literals[i].parent)

MarkChecked(g, chain) ==
    [g EXCEPT !.literals = [i \in 1..Len(g.literals) |->
        IF \E c \in 1..Len(chain) : chain[c] = i
        THEN [g.literals[i] EXCEPT !.checked = TRUE]
        ELSE g.literals[i]]]

\* `for elem in sorted_elems` from position p on.
RECURSIVE CollectChains(_, _, _)
CollectChains(g, p, ret) ==
    IF p > Len(g.dfs_topo_sorted) THEN [g |-> g, ret |-> ret]
    ELSE LET elem == g.dfs_topo_sorted[p] IN
         IF ~g.literals[elem].checked
         THEN LET chain == ParentChain(g, elem) IN
              CollectChains(MarkChecked(g, chain), p + 1, Append(ret, chain))
         ELSE CollectChains(g, p + 1, ret)

----------------------------------------------------------------------------
(* main, lines 228-241: the conflict test of one list *)

InList(x, list) == \E i \in 1..Len(list) : list[i] = x

\* `for lt in scc` from position k on, with the pos and neg lists so far;
\* TRUE when the loop prints UNSATISFIABLE.
RECURSIVE ScanScc(_, _, _, _, _)
ScanScc(g, scc, k, pos, neg) ==
    IF k > Len(scc) THEN FALSE
    ELSE LET lt == g.literals[scc[k]] IN
         IF lt.name[1] = "-"
         THEN \/ InList(get_negation(lt).name, pos)
              \/ ScanScc(g, scc, k + 1, pos, Append(neg, lt.name))
         ELSE \/ InList(get_negation(lt).name, neg)
              \/ ScanScc(g, scc, k + 1, Append(pos, lt.name), neg)

\* The scan without the test of lines 239-241 (the positive branch).
RECURSIVE ScanScc_NoPositiveTest(_, _, _, _, _)
ScanScc_NoPositiveTest(g, scc, k, pos, neg) ==
    IF k > Len(scc) THEN FALSE
    ELSE LET lt == g.literals[scc[k]] IN
         IF lt.name[1] = "-"
         THEN \/ InList(get_negation(lt).name, pos)
              \/ ScanScc_NoPositiveTest(g, scc, k + 1, pos, Append(neg, lt.name))
         ELSE ScanScc_NoPositiveTest(g, scc, k + 1, Append(pos, lt.name), neg)

SccConflict_NoPositiveTest(g, scc) ==
    ScanScc_NoPositiveTest(g, scc, 1, <<>>, <<>>)

SccConflict(g, scc) == ScanScc(g, scc, 1, <<>>, <<>>)

----------------------------------------------------------------------------
(* main, lines 244-272: the binding *)

\* Lines 247-249 and 259-263: the variable and the value a literal stands for.
VariableOf(lt) == IF lt.name[1] = "-" THEN get_negation(lt).name ELSE lt.name

\* ValueOf with the two values swapped.
ValueOf_Swapped(lt) == IF lt.name[1] = "-" THEN "True" ELSE "False"

ValueOf(lt) == IF lt.name[1] = "-" THEN "False" ELSE "True"

\* Code point of a character, for the string comparison of list.sort().
CharCode(c) ==
    IF c = "-" THEN 45
    ELSE IF c = "0" THEN 48
    ELSE 48 + (CHOOSE i \in 1..Len(Digits) : Digits[i] = c)

RECURSIVE StrLess(_, _)
StrLess(a, b) ==
    IF Len(a) = 0 THEN Len(b) > 0
    ELSE IF Len(b) = 0 THEN FALSE
    ELSE IF a[1] = b[1] THEN StrLess(Tail(a), Tail(b))
    ELSE CharCode(a[1]) < CharCode(b[1])

RECURSIVE InsertSorted(_, _)
InsertSorted(sorted, x) ==
    IF Len(sorted) = 0 THEN <<x>>
    ELSE IF StrLess(x, sorted[1]) THEN <<x>> \o sorted
    ELSE <<sorted[1]>> \o InsertSorted(Tail(sorted), x)

RECURSIVE SortNames(_)
SortNames(names) ==
    IF Len(names) = 0 THEN <<>>
    ELSE InsertSorted(SortNames(SubSeq(names, 1, Len(names) - 1)), names[Len(names)])

\* Lines 246-252: `for lt in G.literals` from position i on.
RECURSIVE CollectVariables(_, _, _)
CollectVariables(g, i, variables) ==
    IF i > Len(g.literals) THEN variables
    ELSE LET variable == VariableOf(g.literals[i]) IN
         CollectVariables(g, i + 1,
            IF InList(variable, variables) THEN variables
            ELSE Append(variables, variable))

\* Assign without the `is None` guard of line 264.
Assign_Overwrite(bindings, variable, value) ==
    [bindings EXCEPT ![variable] = value]

\* Lines 264-265.
Assign(bindings, variable, value) ==
    IF bindings[variable] = None
    THEN [bindings EXCEPT ![variable] = value]
    ELSE bindings

\* Lines 266-271: one token per variable, in the sorted order.
Report(bindings, variables) ==
    [i \in 1..Len(variables) |->
        IF bindings[variables[i]] = "True" THEN "1" ELSE "0"]

----------------------------------------------------------------------------
(* main: reading the clause stream *)

\* ClauseError without the one-literal test of lines 189-190.
ClauseError_NoOneLiteralTest(clause) ==
    IF Len(clause) > MaxArity THEN MsgArity ELSE None

\* ClauseError with the arity test of line 186 off by one.
ClauseError_ArityOffByOne(clause) ==
    IF Len(clause) > MaxArity + 1 THEN MsgArity
    ELSE IF Len(clause) = 1 THEN MsgOneLiteral
    ELSE None

\* Lines 186-190: the error a terminated clause raises, or None.
ClauseError(clause) ==
    IF Len(clause) > MaxArity THEN MsgArity
    ELSE IF Len(clause) = 1 THEN MsgOneLiteral
    ELSE None

\* Lines 191-198: the four add_implication calls of a two-literal clause.
AddClause(gs, clause) ==
    IF Len(clause) = 2
    THEN [G |-> add_implication(
                    add_implication(gs.G, get_negation(clause[1]), clause[2]),
                    get_negation(clause[2]), clause[1]),
          G_inv |-> add_implication(
                    add_implication(gs.G_inv, clause[2], get_negation(clause[1])),
                    clause[1], get_negation(clause[2]))]
    ELSE gs

VARIABLES
    file,              \* the tokens of the file consumed so far
    pc,                \* position of main
    G, G_inv,          \* the two Implication_Graph objects
    current_clause,    \* main's current_clause
    error,             \* message of the RuntimeError raised, or None
    second_dfs_order,  \* main's second_dfs_order (positions in G.literals)
    k,                 \* position of `for lt in second_dfs_order`
    sccs,              \* main's sccs (lists of positions in G_inv.literals)
    ci,                \* position of `for scc in sccs` (line 228)
    verdict,           \* the verdict printed, or None
    bindings,          \* main's bindings dict (line 244)
    variables,         \* main's variables list
    si, sj,            \* position of the reverse walk (lines 256-258)
    final_report       \* the report printed (a list of "1"/"0"), or None

vars == <<file, pc, G, G_inv, current_clause, error, second_dfs_order, k, sccs,
          ci, verdict, bindings, variables, si, sj, final_report>>

solveVars == <<second_dfs_order, k, sccs, ci, verdict, bindings, variables,
               si, sj, final_report>>

NumTerminators(f) == Cardinality({i \in 1..Len(f) : f[i] = Terminator})

EmptyDict == [n \in {} |-> None]

Init ==
    /\ file = <<>>
    /\ pc = "read"
    /\ G = Implication_Graph
    /\ G_inv = Implication_Graph
    /\ current_clause = <<>>
    /\ error = None
    /\ second_dfs_order = <<>>
    /\ k = 1
    /\ sccs = <<>>
    /\ ci = 1
    /\ verdict = None
    /\ bindings = EmptyDict
    /\ variables = <<>>
    /\ si = 0
    /\ sj = 1
    /\ final_report = None

\* Lines 201-205: a literal token. The files explored hold at most MaxClauses
\* terminators and clauses of at most MaxArity + 1 literals (enough to raise
\* the arity error).
ReadLiteral(tok) ==
    /\ pc = "read"
    /\ NumTerminators(file) < MaxClauses
    /\ Len(current_clause) <= MaxArity
    /\ LET lt == Literal(tok) IN
        /\ G' = add_literal(G, lt)
        /\ G_inv' = add_literal(G_inv, lt)
        /\ current_clause' = Append(current_clause, lt)
    /\ file' = Append(file, tok)
    /\ UNCHANGED <<pc, error, solveVars>>

\* Lines 184-200: the token "0" ends the current clause.
ReadTerminator ==
    /\ pc = "read"
    /\ NumTerminators(file) < MaxClauses
    /\ file' = Append(file, Terminator)
    /\ IF ClauseError(current_clause) # None
       THEN /\ pc' = "error"
            /\ error' = ClauseError(current_clause)
            /\ UNCHANGED <<G, G_inv, current_clause>>
       ELSE /\ LET gs == AddClause([G |-> G, G_inv |-> G_inv], current_clause) IN
                /\ G' = gs.G
                /\ G_inv' = gs.G_inv
            /\ current_clause' = <<>>
            /\ UNCHANGED <<pc, error>>
    /\ UNCHANGED solveVars

\* The file ends; lines 217-218. The files explored end after a terminator
\* (every clause is terminated).
EndOfFile ==
    /\ pc = "read"
    /\ current_clause = <<>>
    /\ G' = dfs_init(G)
    /\ G_inv' = dfs_init(G_inv)
    /\ pc' = "dfs_first"
    /\ UNCHANGED <<file, current_clause, error, solveVars>>

\* Lines 219-220.
DfsFirst ==
    /\ pc = "dfs_first"
    /\ LET r == dfs_first(G) IN
        /\ G' = r.g
        /\ second_dfs_order' = r.ret
    /\ sccs' = <<>>
    /\ k' = 1
    /\ pc' = "main_loop"
    /\ UNCHANGED <<file, G_inv, current_clause, error, ci, verdict, bindings,
                   variables, si, sj, final_report>>

\* Lines 222-224: the literal of G_inv named like second_dfs_order[k].
LtInSecond ==
    get_literal_id(G_inv, G.literals[second_dfs_order[k]].name) + 1

\* Lines 221-225, the literal is not white: next iteration.
MainLoopSkip ==
    /\ pc = "main_loop"
    /\ k <= Len(second_dfs_order)
    /\ G_inv.literals[LtInSecond].color # "white"
    /\ k' = k + 1
    /\ UNCHANGED <<file, pc, G, G_inv, current_clause, error, second_dfs_order,
                   sccs, ci, verdict, bindings, variables, si, sj, final_report>>

\* Lines 221-226 and 123-126: dfs_second(start) is called and visits start.
DfsSecondStart ==
    /\ pc = "main_loop"
    /\ k <= Len(second_dfs_order)
    /\ G_inv.literals[LtInSecond].color = "white"
    /\ G_inv' = dfs_visit(G_inv,
                    get_literal_id(G_inv, G_inv.literals[LtInSecond].name) + 1)
    /\ pc' = "dfs_second"
    /\ UNCHANGED <<file, G, current_clause, error, solveVars>>

WhitePositions(g) == {i \in 1..Len(g.literals) : g.literals[i].color = "white"}

FirstWhite(g) ==
    CHOOSE i \in WhitePositions(g) : \A j \in WhitePositions(g) : i <= j

\* Lines 127-129: the iterations up to and including the next white literal.
DfsSecondRoot ==
    /\ pc = "dfs_second"
    /\ WhitePositions(G_inv) # {}
    /\ G_inv' = dfs_visit(G_inv, FirstWhite(G_inv))
    /\ UNCHANGED <<file, pc, G, current_clause, error, solveVars>>

\* Lines 127-143 once no literal is white, and `sccs +=` of line 226.
DfsSecondCollect ==
    /\ pc = "dfs_second"
    /\ WhitePositions(G_inv) = {}
    /\ LET r == CollectChains(G_inv, 1, <<>>) IN
        /\ G_inv' = r.g
        /\ sccs' = sccs \o r.ret
    /\ k' = k + 1
    /\ pc' = "main_loop"
    /\ UNCHANGED <<file, G, current_clause, error, second_dfs_order, ci, verdict,
                   bindings, variables, si, sj, final_report>>

\* Line 221 exhausted: on to the loop of line 228.
MainLoopDone ==
    /\ pc = "main_loop"
    /\ k > Len(second_dfs_order)
    /\ ci' = 1
    /\ pc' = "check"
    /\ UNCHANGED <<file, G, G_inv, current_clause, error, second_dfs_order, k,
                   sccs, verdict, bindings, variables, si, sj, final_report>>

\* Lines 228-241: one list of sccs.
CheckScc ==
    /\ pc = "check"
    /\ ci <= Len(sccs)
    /\ IF SccConflict(G_inv, sccs[ci])
       THEN /\ verdict' = "UNSATISFIABLE"
            /\ pc' = "returned"
            /\ UNCHANGED ci
       ELSE /\ ci' = ci + 1
            /\ UNCHANGED <<pc, verdict>>
    /\ UNCHANGED <<file, G, G_inv, current_clause, error, second_dfs_order, k,
                   sccs, bindings, variables, si, sj, final_report>>

\* Lines 242-253.
PrintSatisfiable ==
    /\ pc = "check"
    /\ ci > Len(sccs)
    /\ verdict' = "SATISFIABLE"
    /\ LET vs == CollectVariables(G, 1, <<>>) IN
        /\ bindings' = [v \in {vs[i] : i \in 1..Len(vs)} |-> None]
        /\ variables' = SortNames(vs)
    /\ si' = Len(sccs)
    /\ sj' = 1
    /\ pc' = "assign"
    /\ UNCHANGED <<file, G, G_inv, current_clause, error, second_dfs_order, k,
                   sccs, ci, final_report>>

\* Lines 256-265: one literal of the reverse walk over sccs.
AssignStep ==
    /\ pc = "assign"
    /\ si >= 1
    /\ LET lt == G_inv.literals[sccs[si][sj]] IN
        bindings' = Assign(bindings, VariableOf(lt), ValueOf(lt))
    /\ IF sj < Len(sccs[si])
       THEN /\ sj' = sj + 1
            /\ UNCHANGED si
       ELSE /\ si' = si - 1
            /\ sj' = 1
    /\ UNCHANGED <<file, pc, G, G_inv, current_clause, error, second_dfs_order,
                   k, sccs, ci, verdict, variables, final_report>>

\* Lines 266-272.
PrintReport ==
    /\ pc = "assign"
    /\ si < 1
    /\ final_report' = Report(bindings, variables)
    /\ pc' = "done"
    /\ UNCHANGED <<file, G, G_inv, current_clause, error, second_dfs_order, k,
                   sccs, ci, verdict, bindings, variables, si, sj>>

Next ==
    \/ \E tok \in LiteralTokens : ReadLiteral(tok)
    \/ ReadTerminator
    \/ EndOfFile
    \/ DfsFirst
    \/ MainLoopSkip
    \/ DfsSecondStart
    \/ DfsSecondRoot
    \/ DfsSecondCollect
    \/ MainLoopDone
    \/ CheckScc
    \/ PrintSatisfiable
    \/ AssignStep
    \/ PrintReport

Spec == Init /\ [][Next]_vars
----------------------------------------------------------------------------
(* Vocabulary of the properties *)

\* The clauses of the file terminated so far, as lists of tokens: clause c
\* lies between the (c-1)-th and the c-th terminator.
TerminatorPositions == {i \in 1..Len(file) : file[i] = Terminator}

ClauseEndingAt(i) ==
    LET before == {j \in TerminatorPositions : j < i}
        start == IF before = {} THEN 1
                 ELSE 1 + (CHOOSE j \in before : \A h \in before : h <= j)
    IN  SubSeq(file, start, i - 1)

Clauses ==
    [c \in 1..Cardinality(TerminatorPositions) |->
        ClauseEndingAt(CHOOSE i \in TerminatorPositions :
                          Cardinality({j \in TerminatorPositions : j <= i}) = c)]

OnlyTwoLiteralClauses ==
    LET cs == Clauses IN \A c \in 1..Len(cs) : Len(cs[c]) = 2

TokNegated(tok) == tok[1] = "-"
TokVariable(tok) == IF TokNegated(tok) THEN Tail(tok) ELSE tok

TokTrueUnder(a, tok) ==
    IF TokNegated(tok) THEN ~a[TokVariable(tok)] ELSE a[TokVariable(tok)]

\* Some assignment of the variable names makes a literal of every clause true.
Satisfiable ==
    \E a \in [VarNames -> BOOLEAN] :
        \A c \in 1..Len(Clauses) :
            \E l \in 1..Len(Clauses[c]) : TokTrueUnder(a, Clauses[c][l])

\* The positions reachable from the set S along the edges of g.
RECURSIVE ReachFrom(_, _)
ReachFrom(g, S) ==
    LET T == S \cup UNION {{g.literals[i].neighbours[j] :
                                j \in 1..Len(g.literals[i].neighbours)} : i \in S}
    IN  IF T = S THEN S ELSE ReachFrom(g, T)

MutuallyReachable(g, a, b) ==
    /\ b \in ReachFrom(g, {a})
    /\ a \in ReachFrom(g, {b})

\* Position in g of the literal that negates the literal at position i.
NegationPos(g, i) ==
    CHOOSE j \in 1..Len(g.literals) :
        g.literals[j].name = RemoveDoubleDash(<<"-">> \o g.literals[i].name)

\* Some literal and its negation lie in one strongly connected component of G.
Contradiction ==
    \E i \in 1..Len(G.literals) : MutuallyReachable(G, i, NegationPos(G, i))

\* The value the printed report gives a variable.
ReportedTrue(v) ==
    \E i \in 1..Len(variables) : variables[i] = v /\ final_report[i] = "1"

TokReportedTrue(tok) ==
    IF TokNegated(tok) THEN ~ReportedTrue(TokVariable(tok))
    ELSE ReportedTrue(TokVariable(tok))

SccsBuilt == pc \in {"check", "returned", "assign", "done"}

\* The names of the literals of one list of sccs.
ListNames(scc) == {G_inv.literals[scc[p]].name : p \in 1..Len(scc)}

\* The names of the strongly connected component of G that holds position i.
ComponentNames(i) ==
    {G.literals[j].name :
        j \in {j \in 1..Len(G.literals) : MutuallyReachable(G, i, j)}}

\* Pass-1 finish time (in G) of the literal at position i of G_inv.
FirstPassFinish(i) ==
    G.literals[get_literal_id(G, G_inv.literals[i].name) + 1].f

----------------------------------------------------------------------------
(* Properties *)

\* C1: when the run of a stream of two-literal clauses prints SATISFIABLE, the
\* report printed afterwards makes at least one literal of every clause true.
C1_ReportSatisfiesClauses ==
    (pc = "done" /\ verdict = "SATISFIABLE" /\ OnlyTwoLiteralClauses)
        => \A c \in 1..Len(Clauses) :
             \E l \in 1..Len(Clauses[c]) : TokReportedTrue(Clauses[c][l])

C1_Witness ==
    /\ pc = "done"
    /\ verdict = "SATISFIABLE"
    /\ OnlyTwoLiteralClauses
    /\ Len(Clauses) = MaxClauses
    /\ \E i, j \in 1..Len(final_report) :
          final_report[i] = "1" /\ final_report[j] = "0"

\* C2: a satisfiable stream of two-literal clauses is never reported
\* UNSATISFIABLE.
C2_SatisfiableNeverUnsat ==
    (verdict = "UNSATISFIABLE" /\ OnlyTwoLiteralClauses) => ~Satisfiable

C4_SccsPartition ==
    SccsBuilt =>
        \A i \in 1..Len(G_inv.literals) :
            Cardinality({lp \in {<<l, p>> : l \in 1..Len(sccs), p \in 1..(2 * MaxVar)} :
                            lp[2] <= Len(sccs[lp[1]]) /\ sccs[lp[1]][lp[2]] = i}) = 1

C6_ArityAborts ==
    LET cs == Clauses IN
    \A c \in 1..Len(cs) :
        Len(cs[c]) > 2
            => /\ pc = "error"
               /\ c = Len(cs)
               /\ error = MsgArity
               /\ verdict = None
               /\ final_report = None

C6_Witness ==
    /\ Len(Clauses) = MaxClauses
    /\ Len(Clauses[1]) = 2
    /\ Len(Clauses[Len(Clauses)]) > 2
    /\ pc = "error"
    /\ error = MsgArity

\* C7: in the reverse walk over sccs a step binds the variable of the literal
\* it looks at, when that variable is unset, to true for the positive form and
\* false for the negated form; it changes no variable that is already bound
\* and no other variable; when the report is printed no variable is unset.
C7_BoundOnce ==
    [][ /\ pc = "assign" /\ si >= 1 =>
            LET name == G_inv.literals[sccs[si][sj]].name
                v == IF name[1] = "-" THEN Tail(name) ELSE name
            IN  /\ DOMAIN bindings' = DOMAIN bindings
                /\ \A w \in DOMAIN bindings :
                     bindings'[w] =
                        IF w = v /\ bindings[w] = None
                        THEN (IF name[1] = "-" THEN "False" ELSE "True")
                        ELSE bindings[w]
        /\ pc' = "done" =>
            /\ \A i \in 1..Len(G.literals) :
                 TokVariable(G.literals[i].name) \in DOMAIN bindings'
            /\ \A w \in DOMAIN bindings' : bindings'[w] \in {"True", "False"}
      ]_vars

C7_Witness ==
    /\ pc = "done"
    /\ Len(variables) = MaxVar
    /\ \E v, w \in DOMAIN bindings : bindings[v] = "True" /\ bindings[w] = "False"

\* C8: a two-literal clause whose derived implications run from a literal to
\* itself (x or not x) aborts the run.
C8_SelfImplicationAborts ==
    \A c \in 1..Len(Clauses) :
        (Len(Clauses[c]) = 2
            /\ get_negation(Literal(Clauses[c][1])).name = Literal(Clauses[c][2]).name)
            => pc = "error"

\* C9: every list of sccs is a strongly connected component of G: its
\* literals are exactly those mutually reachable in G with any one of them.
C9_ListsAreComponents ==
    SccsBuilt =>
        \A l \in 1..Len(sccs) :
            \A p \in 1..Len(sccs[l]) :
                ListNames(sccs[l]) =
                    ComponentNames(
                        get_literal_id(G, G_inv.literals[sccs[l][p]].name) + 1)

\* A pass-2 tree is rooted at position r of G_inv in this step.
RootedNow(r) ==
    /\ G_inv.literals[r].color = "white"
    /\ G_inv'.literals[r].color # "white"
    /\ G_inv'.literals[r].parent = Nil

\* C10: whenever a pass-2 tree is rooted at a literal r of G_inv, r has the
\* largest pass-1 finish time among the literals still white in G_inv.
C10_RootsInReverseFinishOrder ==
    [][\A r \in 1..Len(G_inv.literals) :
          (pc \in {"main_loop", "dfs_second"} /\ RootedNow(r))
              => (\A n \in WhitePositions(G_inv) :
                    FirstPassFinish(n) <= FirstPassFinish(r))]_vars
====
